---------------------------- MODULE Spec2Model ----------------------------
(***************************************************************************)
(* A model of import-issues.py: the importer of Trello cards into GitHub   *)
(* issues.  One process run is main(): it loads the export, ensures the    *)
(* state directory, issues GET user, then enters the loop over the cards.  *)
(* The state directory outlives a run, so the model lets the program be    *)
(* run again on the same export and the same directory.                    *)
(*                                                                         *)
(* Python strings are sequences of one-character strings, so that the      *)
(* substring test and the %-formatting of gh_request are computed and not  *)
(* assumed.  Python values carry a tag t: None, str, tuple, dict, fn.      *)
(***************************************************************************)
EXTENDS Integers, Sequences, FiniteSets, TLC

\* ------------------------------------------------------------- bounds
\* How many times the program is run on the same state directory.
MaxRuns == 3
\* The longest 'cards' array of an export.
MaxCards == 2

\* ------------------------------------------------------ Python values
None == [t |-> "None"]
PyStr(s) == [t |-> "str", s |-> s]
PyTuple(items) == [t |-> "tuple", items |-> items]
PyDict(d) == [t |-> "dict", d |-> d]
PyBool(b) == [t |-> "bool", b |-> b]

\* The functions of the requests library the program passes around.
requests_get == [t |-> "fn", name |-> "GET"]
requests_post == [t |-> "fn", name |-> "POST"]
requests_patch == [t |-> "fn", name |-> "PATCH"]

\* Python truthiness, as used by `if state:`, `if data:` and `if not req`.
Truthy(v) ==
    CASE v.t = "None" -> FALSE
      [] v.t = "str" -> Len(v.s) > 0
      [] v.t = "tuple" -> Len(v.items) > 0
      [] v.t = "dict" -> DOMAIN v.d # {}
      [] v.t = "bool" -> v.b
      [] OTHER -> TRUE

\* d[k] = v on a Python dict.
SetItem(d, k, v) == PyDict((k :> v) @@ d.d)

\* repr() and str() of the values the program formats: a str, or a tuple of
\* them.  str of a str is the str; repr of a str quotes it; a tuple prints
\* as (item, item), and a one-element tuple as (item,).
RECURSIVE py_repr(_)
RECURSIVE py_join_repr(_)
py_join_repr(items) ==
    IF Len(items) = 0 THEN <<>>
    ELSE IF Len(items) = 1 THEN py_repr(items[1])
    ELSE py_repr(items[1]) \o <<",", " ">> \o py_join_repr(Tail(items))

py_repr(v) ==
    IF v.t = "str" THEN <<"'">> \o v.s \o <<"'">>
    ELSE <<"(">> \o py_join_repr(v.items)
         \o (IF Len(v.items) = 1 THEN <<",">> ELSE <<>>) \o <<")">>

py_str(v) == IF v.t = "str" THEN v.s ELSE py_repr(v)

\* `needle in hay`: a substring test on a str, a membership test on a tuple.
py_in(needle, hay) ==
    IF hay.t = "str"
    THEN \E i \in 1..(Len(hay.s) - Len(needle) + 1) :
            SubSeq(hay.s, i, i + Len(needle) - 1) = needle
    ELSE \E i \in 1..Len(hay.items) : hay.items[i] = PyStr(needle)

\* json.dumps / json.dump of a dict gives a text, json.load gives the dict
\* back (the dicts hold only strings under string keys).
json_dumps(v) == [t |-> "json", v |-> v.d]
json_load(text) == PyDict(text.v)

\* ------------------------------------------------------- configuration
\* --githubroot default.
githubroot_default ==
    <<"h", "t", "t", "p", "s", ":", "/", "/", "a", "p", "i", ".",
      "g", "i", "t", "h", "u", "b", ".", "c", "o", "m">>

\* The parsed command line: --statedir is absent (None) or a directory.
Args ==
    { [statedir |-> sd, githubroot |-> githubroot_default,
       github_owner |-> <<"o">>, github_repo |-> <<"r">>] :
        sd \in {None, PyStr(<<"s", "t">>)} }

\* The card records an export can hold: id, name, desc.
CardPool ==
    { [id |-> i, name |-> n, desc |-> <<"d">> \o i] :
        i \in {<<"1">>, <<"2">>, <<"3">>}, n \in {<<"a">>, <<"b">>} }

\* The 'cards' arrays: up to MaxCards cards with distinct ids.
RECURSIVE SeqsUpTo(_)
SeqsUpTo(n) ==
    IF n = 0 THEN {<<>>}
    ELSE LET shorter == SeqsUpTo(n - 1)
         IN shorter \cup
            { Append(s, c) : s \in {x \in shorter : Len(x) = n - 1},
                             c \in CardPool }

Exports ==
    { cs \in SeqsUpTo(MaxCards) :
        \A i, j \in 1..Len(cs) : i # j => cs[i].id # cs[j].id }

\* The 'url' of an issue in a response of the API: an absolute URL.
IssueUrls ==
    { githubroot_default
        \o <<"/", "r", "e", "p", "o", "s", "/", "o", "/", "r", "/",
             "i", "s", "s", "u", "e", "s", "/">> \o n :
        n \in {<<"7">>, <<"8">>} }

\* What the server can answer to a card request: a failure status, or a
\* success whose body carries the issue's url.
Responses ==
    {[ok |-> FALSE, url |-> <<>>]} \cup {[ok |-> TRUE, url |-> u] : u \in IssueUrls}

\* --------------------------------------------------------------- state
VARIABLES
    args,          \* the parsed command line of the runs
    trello_data,   \* the 'cards' array of the export
    pc,            \* where main() is: "start", "cards", "exited"
    run,           \* the number of the current run
    dirs,          \* the directories that exist
    fs,            \* the files of the state directory: path -> text
    log,           \* every HTTP request issued, in order, with its answer
    writes,        \* every state file write, in order
    saves,         \* the ids save() was called for in this run, in order
    ok,            \* what the last save() of this run returned
    raised,        \* the exception that ended this run, or ""
    exitcode,      \* <<>> while running, <<code>> once exited
    call           \* a call of gh_request on its own: arguments and result

vars == <<args, trello_data, pc, run, dirs, fs, log, writes, saves, ok,
          raised, exitcode, call>>

\* ---------------------------------------------------------- gh_request
\* A variant of the verb selection in which a payload always means POST,
\* whatever verb was given.
gh_req_fn_post_on_data(data, req_fn) ==
    IF Truthy(data) THEN requests_post
    ELSE (IF req_fn = None THEN requests_get ELSE req_fn)

\* The verb gh_request uses.
gh_req_fn(data, req_fn) ==
    IF Truthy(data)
    THEN (IF req_fn = None THEN requests_post ELSE req_fn)
    ELSE (IF req_fn = None THEN requests_get ELSE req_fn)

\* The body gh_request sends: the payload serialised when it is truthy.
gh_data(data) == IF Truthy(data) THEN json_dumps(data) ELSE data

\* A variant of the URL resolution that prefixes the root to every path.
gh_req_url_rooted(path, githubroot) == githubroot \o <<"/">> \o py_str(path)

\* The URL gh_request sends to.
gh_req_url(path, githubroot) ==
    IF ~py_in(<<":", "/", "/">>, path)
    THEN githubroot \o <<"/">> \o py_str(path)
    ELSE py_str(path)

\* The request gh_request issues.
gh_request(path, a, data, req_fn) ==
    [verb |-> gh_req_fn(data, req_fn),
     url |-> gh_req_url(path, a.githubroot),
     data |-> gh_data(data)]

\* ---------------------------------------------------------------- Card
\* Card.__init__: the state file's path, or None without --statedir.
state_file(card_data, a) ==
    IF Truthy(a.statedir)
    THEN [dir |-> a.statedir.s,
          name |-> card_data.id \o <<".", "j", "s", "o", "n">>]
    ELSE None

\* A variant of Card.state that never finds the file.
state_absent(files, sf) == None

\* Card.state on a state file path: the decoded file, or None when the file
\* does not exist.
state(files, sf) ==
    IF sf \in DOMAIN files THEN json_load(files[sf]) ELSE None

\* Card.save: the verb argument handed to gh_request.
save_req_fn(st) == IF Truthy(st) THEN requests_patch ELSE None

\* Card.save: the path handed to gh_request.  The create branch ends in a
\* comma, which makes the path a one-element tuple.
save_req_url(st, a) ==
    IF Truthy(st)
    THEN PyStr(st.d["url"])
    ELSE PyTuple(<<PyStr(<<"r", "e", "p", "o", "s", "/">> \o a.github_owner
                          \o <<"/">> \o a.github_repo
                          \o <<"/", "i", "s", "s", "u", "e", "s">>)>>)

\* A variant of the payload that starts from an empty dict on both branches.
save_data_fresh(st, card_data) ==
    SetItem(SetItem(PyDict(<<>>), "title", card_data.name), "body", card_data.desc)

\* Card.save: the dict handed to gh_request as data: the loaded state (or
\* an empty dict) with title and body set from the card.
save_data(st, card_data) ==
    LET base == IF Truthy(st) THEN st ELSE PyDict(<<>>)
    IN SetItem(SetItem(base, "title", card_data.name), "body", card_data.desc)

\* A variant of save that writes the state file whatever the answer.
save_writes_always(req) == TRUE

\* Card.save: whether save goes on to write the state file once the
\* request was answered by req (`if not req: return False`).
save_writes(req) == req.ok

\* A variant of the write that keeps a url already in the state.
save_files_keep_url(files, sf, data, req) ==
    IF save_writes(req)
    THEN (sf :> json_dumps(IF "url" \in DOMAIN data.d THEN data
                           ELSE SetItem(data, "url", req.url))) @@ files
    ELSE files

\* Card.save: the files after the request was answered by req.
save_files(files, sf, data, req) ==
    IF save_writes(req)
    THEN (sf :> json_dumps(SetItem(data, "url", req.url))) @@ files
    ELSE files

\* Card.save: the value returned.
save_return(req) == PyBool(req.ok)

\* ---------------------------------------------------------------- main
\* A variant of main that goes on to the cards whatever GET user answered.
main_after_user_lenient(req_ok) == "cards"

\* main after gh_request('user'): sys.exit(1) when it failed.
main_after_user(req_ok) == IF ~req_ok THEN "exited" ELSE "cards"

Init ==
    /\ args \in Args
    /\ trello_data \in Exports
    /\ pc = "start"
    /\ run = 1
    /\ dirs = {}
    /\ fs = <<>>
    /\ log = <<>>
    /\ writes = <<>>
    /\ saves = <<>>
    /\ ok = None
    /\ raised = ""
    /\ exitcode = <<>>
    /\ call = None

\* main up to the authentication check: ensure the state directory, then
\* gh_request('user', args); on failure sys.exit(1).
AuthCheck ==
    /\ pc = "start"
    /\ \E req_ok \in BOOLEAN :
        LET r == gh_request(PyStr(<<"u", "s", "e", "r">>), args, None, None)
        IN /\ log' = Append(log, [run |-> run, card |-> <<>>, verb |-> r.verb.name,
                                  url |-> r.url, data |-> r.data,
                                  ok |-> req_ok, resp_url |-> <<>>])
           /\ pc' = main_after_user(req_ok)
           /\ exitcode' = IF main_after_user(req_ok) = "exited" THEN <<1>> ELSE <<>>
    /\ dirs' = IF Truthy(args.statedir) THEN dirs \cup {args.statedir.s} ELSE dirs
    /\ UNCHANGED <<args, trello_data, run, fs, writes, saves, ok, raised,
                   call>>

\* The loop over an export without cards: main returns.
NoCards ==
    /\ pc = "cards"
    /\ Len(trello_data) = 0
    /\ pc' = "exited"
    /\ exitcode' = <<0>>
    /\ UNCHANGED <<args, trello_data, run, dirs, fs, log, writes, saves, ok,
                   raised, call>>

\* The loop body on the first card without --statedir: Card.state opens
\* self.state_file, which is None, and the AttributeError ends the process.
SaveNoStatedir ==
    /\ pc = "cards"
    /\ Len(trello_data) > 0
    /\ state_file(trello_data[1], args) = None
    /\ saves' = Append(saves, trello_data[1].id)
    /\ raised' = "AttributeError"
    /\ pc' = "exited"
    /\ exitcode' = <<1>>
    /\ UNCHANGED <<args, trello_data, run, dirs, fs, log, writes, ok, call>>

\* The loop body on the first card: Card(card_data, args).save(), then the
\* `return` that ends main after this one card.  Opening the state file for
\* writing in a directory that does not exist raises ENOENT.
SaveCard ==
    /\ pc = "cards"
    /\ Len(trello_data) > 0
    /\ state_file(trello_data[1], args) # None
    /\ \E req \in Responses :
        LET card_data == trello_data[1]
            sf == state_file(card_data, args)
            st == state(fs, sf)
            data == save_data(st, card_data)
            r == gh_request(save_req_url(st, args), args, data, save_req_fn(st))
            nodir == save_writes(req) /\ sf.dir \notin dirs
        IN /\ log' = Append(log, [run |-> run, card |-> card_data.id,
                                  verb |-> r.verb.name, url |-> r.url,
                                  data |-> r.data, ok |-> req.ok,
                                  resp_url |-> req.url])
           /\ fs' = IF nodir THEN fs ELSE save_files(fs, sf, data, req)
           /\ writes' = IF save_writes(req) /\ ~nodir
                        THEN Append(writes, [run |-> run, file |-> sf])
                        ELSE writes
           /\ ok' = IF nodir THEN ok ELSE save_return(req)
           /\ raised' = IF nodir THEN "ENOENT" ELSE ""
           /\ exitcode' = IF nodir THEN <<1>> ELSE <<0>>
           /\ saves' = Append(saves, card_data.id)
    /\ pc' = "exited"
    /\ UNCHANGED <<args, trello_data, run, dirs, call>>

\* The program is run again, on the same export and state directory.
Rerun ==
    /\ pc = "exited"
    /\ run < MaxRuns
    /\ run' = run + 1
    /\ pc' = "start"
    /\ saves' = <<>>
    /\ ok' = None
    /\ raised' = ""
    /\ exitcode' = <<>>
    /\ UNCHANGED <<args, trello_data, dirs, fs, log, writes, call>>

Next == AuthCheck \/ NoCards \/ SaveNoStatedir \/ SaveCard \/ Rerun

Spec == Init /\ [][Next]_vars

\* ------------------------------------------------ gh_request on its own
\* The payloads a caller can hand to gh_request: none, an empty dict, and
\* dicts of one to three fields.
Payloads ==
    {None, PyDict(<<>>),
     PyDict("title" :> <<"a">>),
     PyDict("title" :> <<"a">> @@ "body" :> <<"d">>),
     PyDict("title" :> <<"a">> @@ "body" :> <<"d">> @@ "url" :> <<"u">>)}

\* The verb arguments: none given, or one of the requests functions.
ReqFns == {None, requests_get, requests_post, requests_patch}

\* The paths: a relative one, an absolute one, the tuple of the create
\* branch of Card.save.
Paths ==
    {PyStr(<<"u", "s", "e", "r">>)} \cup {PyStr(u) : u \in IssueUrls}
    \cup {PyTuple(<<PyStr(<<"r", "e", "p", "o", "s">>)>>)}

InitReq ==
    /\ args \in Args
    /\ trello_data = <<>>
    /\ pc = "gh_request"
    /\ run = 1
    /\ dirs = {}
    /\ fs = <<>>
    /\ log = <<>>
    /\ writes = <<>>
    /\ saves = <<>>
    /\ ok = None
    /\ raised = ""
    /\ exitcode = <<>>
    /\ call \in {[t |-> "called", path |-> p, data |-> d, req_fn |-> f] :
                    p \in Paths, d \in Payloads, f \in ReqFns}

\* gh_request(path, args, data, req_fn) is run to its return: the request
\* is issued, and the response, or False, is returned.
GhRequest ==
    /\ call.t = "called"
    /\ \E req_ok \in BOOLEAN :
        LET r == gh_request(call.path, args, call.data, call.req_fn)
        IN call' = [t |-> "returned", path |-> call.path, data |-> call.data,
                    req_fn |-> call.req_fn, verb |-> r.verb.name,
                    url |-> r.url, sent |-> r.data,
                    ret |-> IF req_ok THEN "response" ELSE "False"]
    /\ UNCHANGED <<args, trello_data, pc, run, dirs, fs, log, writes, saves,
                   ok, raised, exitcode>>

NextReq == GhRequest

SpecReq == InitReq /\ [][NextReq]_vars
\* ---------------------------------------------------- claim vocabulary
\* The issues endpoint the specification names, resolved against the root.
IssuesUrl ==
    args.githubroot \o <<"/", "r", "e", "p", "o", "s", "/">> \o args.github_owner
    \o <<"/">> \o args.github_repo \o <<"/", "i", "s", "s", "u", "e", "s">>

\* '<statedir>/<id>.json'.
CardFile(id) ==
    [dir |-> args.statedir.s, name |-> id \o <<".", "j", "s", "o", "n">>]

\* The two-field payload {title: card.name, body: card.desc}, serialised.
TitleBody(card) ==
    [t |-> "json", v |-> ("title" :> card.name @@ "body" :> card.desc)]

\* The card of the export with this id.
CardOf(id) ==
    CHOOSE c \in {trello_data[i] : i \in 1..Len(trello_data)} : c.id = id

LastReq == log[Len(log)]
NewReq == log'[Len(log')]

\* A step in which save() is called for the first card with a state
\* directory configured.
SaveStep ==
    /\ pc = "cards"
    /\ pc' = "exited"
    /\ Len(trello_data) > 0
    /\ Truthy(args.statedir)

\* The indices of the requests made for a card, and of its successful ones.
ReqsOf(id) == {i \in 1..Len(log) : log[i].card = id}
OkReqsOf(id) == {i \in ReqsOf(id) : log[i].ok}
Max(S) == CHOOSE m \in S : \A n \in S : n <= m

\* --------------------------------------------------------------- claims
\* C1 (as stated): a save() of a card without a state file issues exactly
\* one POST to '<githubroot>/repos/<owner>/<repo>/issues' with the card's
\* title and body; when it succeeds the state file holds the returned url
\* and save() returns True.
C1_CreatePostsToIssues ==
    [][ (SaveStep /\ CardFile(trello_data[1].id) \notin DOMAIN fs)
        => /\ Len(log') = Len(log) + 1
           /\ NewReq.verb = "POST"
           /\ NewReq.url = IssuesUrl
           /\ NewReq.data = TitleBody(trello_data[1])
           /\ NewReq.ok =>
                /\ CardFile(trello_data[1].id) \in DOMAIN fs'
                /\ fs'[CardFile(trello_data[1].id)].v["url"] = NewReq.resp_url
                /\ ok' = PyBool(TRUE) ]_vars

\* C2: a save() of a card whose state file exists and holds a url issues
\* exactly one request, a PATCH, whose target is the stored url itself.
C2_UpdatePatchesStoredUrl ==
    [][ (SaveStep /\ CardFile(trello_data[1].id) \in DOMAIN fs)
        => /\ Len(log') = Len(log) + 1
           /\ NewReq.card = trello_data[1].id
           /\ NewReq.verb = "PATCH"
           /\ NewReq.url = fs[CardFile(trello_data[1].id)].v["url"]
           /\ NewReq.url # IssuesUrl ]_vars

\* C2 witness: a run has just sent a PATCH for a card whose file existed.
C2_Witness ==
    /\ Len(log) > 0
    /\ LastReq.verb = "PATCH"
    /\ pc = "exited"
    /\ CardFile(LastReq.card) \in DOMAIN fs

\* C3: once a request for a card has succeeded, every later request for
\* that card is a PATCH to the url stored by the last success, never a
\* POST; so a card has at most one successful POST over all the runs.
C3_CreateOnce ==
    \A id \in {log[i].card : i \in 1..Len(log)} \ {<<>>} :
        /\ \A j \in ReqsOf(id) :
            LET before == {i \in OkReqsOf(id) : i < j}
            IN before # {} =>
                /\ log[j].verb = "PATCH"
                /\ log[j].url = log[Max(before)].resp_url
        /\ Cardinality({i \in OkReqsOf(id) : log[i].verb = "POST"}) <= 1

\* C3 witness: a card was created in one run and saved again in a later one.
C3_Witness ==
    \E i, j \in 1..Len(log) :
        /\ i < j
        /\ log[i].card = log[j].card
        /\ log[i].verb = "POST"
        /\ log[i].ok
        /\ log[i].run < log[j].run
        /\ log[j].card # <<>>

\* C4: when the request of save() fails, save() returns False and the state
\* directory is as it was, so the next save() of the card decides alike.
C4_FailureKeepsState ==
    [][ (SaveStep /\ ~NewReq.ok)
        => /\ ok' = PyBool(FALSE)
           /\ fs' = fs
           /\ writes' = writes
           /\ save_req_fn(state(fs', CardFile(trello_data[1].id)))
                = save_req_fn(state(fs, CardFile(trello_data[1].id))) ]_vars

\* C4 witness: the update of a card with a state file has just failed.
C4_Witness ==
    /\ Len(log) > 0
    /\ pc = "exited"
    /\ LastReq.card # <<>>
    /\ LastReq.verb = "PATCH"
    /\ ~LastReq.ok
    /\ ok = PyBool(FALSE)

\* C5 (as stated): a run that terminates normally has called save() once
\* for every card of the export, in the order of the array.
C5_EveryCardSaved ==
    (pc = "exited" /\ exitcode = <<0>>)
        => saves = [i \in 1..Len(trello_data) |-> trello_data[i].id]

\* C6: in each run the one GET user comes before any card request, and when
\* it fails the process exits with code 1, with no card request issued and
\* no state file written in that run.
C6_AuthFirst ==
    /\ \A i \in 1..Len(log) :
        log[i].card # <<>> =>
            \E j \in 1..(i - 1) :
                /\ log[j].run = log[i].run
                /\ log[j].verb = "GET"
                /\ log[j].url = args.githubroot \o <<"/", "u", "s", "e", "r">>
                /\ log[j].ok
    /\ \A i, j \in 1..Len(log) :
        (log[i].verb = "GET" /\ log[j].verb = "GET" /\ log[i].run = log[j].run)
            => i = j
    /\ \A i \in 1..Len(log) :
        (log[i].verb = "GET" /\ ~log[i].ok) =>
            /\ \A j \in 1..Len(log) : log[j].run = log[i].run => j = i
            /\ \A k \in 1..Len(writes) : writes[k].run # log[i].run
            /\ log[i].run = run => (pc = "exited" /\ exitcode = <<1>>)

\* C6 witness: the authentication check of a run has failed, in a state
\* directory that holds a file from an earlier run.
C6_Witness ==
    /\ Len(log) > 0
    /\ LastReq.verb = "GET"
    /\ ~LastReq.ok
    /\ LastReq.run = run
    /\ DOMAIN fs # {}

\* C7 (as stated): the payload of a PATCH is exactly {title, body} of the
\* card, with no other field.
C7_PatchPayloadTwoFields ==
    \A i \in 1..Len(log) :
        log[i].verb = "PATCH" => log[i].data = TitleBody(CardOf(log[i].card))

\* C7 (amended): the payload of a PATCH is the stored state with title and
\* body set from the card: the three fields url (the stored url), title,
\* body; the payload of a create has the two fields title and body.
C7_PatchPayloadCarriesUrl ==
    [][ SaveStep =>
        LET f == CardFile(trello_data[1].id)
        IN IF f \in DOMAIN fs
           THEN NewReq.data =
                  [t |-> "json",
                   v |-> ("url" :> fs[f].v["url"]
                          @@ "title" :> trello_data[1].name
                          @@ "body" :> trello_data[1].desc)]
           ELSE NewReq.data = TitleBody(trello_data[1]) ]_vars

\* C7 witness: a PATCH has been sent.
C7_Witness ==
    \E i \in 1..Len(log) :
        /\ log[i].verb = "PATCH"
        /\ DOMAIN log[i].data.v = {"url", "title", "body"}

\* C8 (as stated): without a state directory every save() is a create: a
\* run that passed the authentication check ends without an error, having
\* sent one POST per card, in the order of the array.
C8_NoStatedirCreatesAll ==
    (/\ ~Truthy(args.statedir)
     /\ pc = "exited"
     /\ \E i \in 1..Len(log) :
            log[i].run = run /\ log[i].verb = "GET" /\ log[i].ok)
        => /\ raised = ""
           /\ LET posts == SelectSeq(log, LAMBDA e : e.run = run /\ e.verb = "POST")
              IN [i \in 1..Len(posts) |-> posts[i].card]
                    = [i \in 1..Len(trello_data) |-> trello_data[i].id]

\* C9: every state file that exists belongs to a card of the export that
\* had a successful save, holds exactly url, title and body, with the
\* card's name and desc and the url answered to its last successful
\* request; and every file ever written is still there.
C9_StateFileContent ==
    /\ \A f \in DOMAIN fs :
        \E n \in 1..Len(trello_data) :
            LET card == trello_data[n]
            IN /\ f = CardFile(card.id)
               /\ DOMAIN fs[f].v = {"url", "title", "body"}
               /\ fs[f].v["title"] = card.name
               /\ fs[f].v["body"] = card.desc
               /\ OkReqsOf(card.id) # {}
               /\ fs[f].v["url"] = log[Max(OkReqsOf(card.id))].resp_url
    /\ \A k \in 1..Len(writes) : writes[k].file \in DOMAIN fs
    /\ \A i \in 1..Len(log) :
        (log[i].card # <<>> /\ log[i].ok) => CardFile(log[i].card) \in DOMAIN fs

\* C9 witness: a state file has been overwritten by a second success.
C9_Witness ==
    \E f \in DOMAIN fs :
        Cardinality({k \in 1..Len(writes) : writes[k].file = f}) >= 2

\* C10: gh_request with a payload (a non-empty data; None and the empty
\* dict send no body) and no verb uses POST; with no payload and no verb it
\* uses GET; a verb that is given is the one used, payload or not.
C10_VerbSelection ==
    call.t = "returned" =>
        /\ (Truthy(call.data) /\ call.req_fn = None) => call.verb = "POST"
        /\ (~Truthy(call.data) /\ call.req_fn = None) => call.verb = "GET"
        /\ call.req_fn # None => call.verb = call.req_fn.name

\* C10 witness: gh_request returned from a call with a payload and the
\* verb PATCH given.
C10_Witness ==
    /\ call.t = "returned"
    /\ Truthy(call.data)
    /\ call.req_fn = requests_patch
=============================================================================
